---- MODULE Spec2Model ----
(***************************************************************************)
(* Model of the neonatal-incubator prototype:                              *)
(*   - backend/express-app/server.js : the MQTT message handler and its    *)
(*     two in-memory stores (sensorData, alerts);                          *)
(*   - the shared utilities (validateSensorRanges, validateSensorData,     *)
(*     formatAlertMessage);                                                *)
(*   - database/init.sql : the tables alertas and umbrales_paciente, as    *)
(*     the statements their constraints accept.                            *)
(*                                                                         *)
(* Physical quantities are integers in tenths of a unit (37.5 is 375), so  *)
(* that every literal of the source is exact.                              *)
(***************************************************************************)
EXTENDS Integers, Sequences, FiniteSets, TLC

VARIABLES
    sensorData,         \* server.js: let sensorData = []
    alerts,             \* server.js: let alerts = []
    clock,              \* the value new Date() yields at the next message
    reading,            \* the object passed to the validation utilities
    called,             \* which utility was applied to reading
    violations,         \* result of validateSensorRanges(reading)
    validation,         \* result of validateSensorData(reading)
    newAlerts,          \* the alerts lines 38-48 of server.js build for reading
    fmtArgs,            \* arguments of a formatAlertMessage call
    message,            \* the message formatAlertMessage returns
    alertas,            \* rows of table alertas
    nextId,             \* next generated primary key of alertas
    alertaResult,       \* outcome of the last statement on alertas
    umbrales_paciente,  \* rows of table umbrales_paciente
    umbralResult,       \* outcome of the last statement on umbrales_paciente
    handlerError,       \* server.js: the last message ended in the catch block
    request,            \* the HTTP request being answered
    response,           \* the HTTP response sent for it
    maxRetries,         \* retryOperation: argument maxRetries
    attempt,            \* retryOperation: loop variable attempt
    lastError,          \* retryOperation: let lastError
    retryPc,            \* retryOperation: where the call stands
    retryResult,        \* retryOperation: the value returned or the error thrown
    invocations,        \* the outcomes of the calls of operation(), oldest first
    config,             \* ConfigManager: this.config
    loadState,          \* ConfigManager: where the loadConfig() of the constructor stands
    fileData,           \* what fs.readFile yields for the config file
    lastSet,            \* for each key, the value of the last set(key, value)
    getResult           \* the last get(key) and the value it returned

vars == <<sensorData, alerts, clock, reading, called, violations, validation,
          newAlerts, fmtArgs, message, alertas, nextId, alertaResult,
          umbrales_paciente, umbralResult, handlerError, request, response,
          maxRetries, attempt, lastError, retryPc, retryResult, invocations,
          config, loadState, fileData, lastSet, getResult>>

serverVars == <<sensorData, alerts, clock, handlerError>>
httpVars == <<request, response>>
retryVars == <<maxRetries, attempt, lastError, retryPc, retryResult, invocations>>
configVars == <<config, loadState, fileData, lastSet, getResult>>
evalVars == <<reading, called, violations, validation, newAlerts>>
fmtVars == <<fmtArgs, message>>
alertaVars == <<alertas, nextId, alertaResult>>
umbralVars == <<umbrales_paciente, umbralResult>>

-----------------------------------------------------------------------------
(* Bounds of the model *)

MaxMessages == 3    \* MQTT messages handled in one run
MaxDeviating == 2   \* fields of a reading that differ from the nominal reading
FmtSpan == 3        \* half-width of the number windows formatAlertMessage is tried on
MaxAlertas == 2     \* rows of alertas
MaxUmbrales == 2    \* rows of umbrales_paciente

-----------------------------------------------------------------------------
(* JavaScript values.  A value is a record [t, v]: t is the kind, v the     *)
(* number it carries (0 when it carries none).                             *)

Num(n) == [t |-> "num", v |-> n]        \* a finite number
NaNValue == [t |-> "nan", v |-> 0]      \* NaN: typeof 'number', isNaN true
Str(n) == [t |-> "str", v |-> n]        \* a string that spells the number n
TextValue == [t |-> "text", v |-> 0]    \* a string that spells no number
NullValue == [t |-> "null", v |-> 0]
Undefined == [t |-> "undefined", v |-> 0]

\* typeof value !== 'number' || isNaN(value)
IsInvalidNumber(value) == value.t # "num"

\* ToNumber, as the relational operators < and > apply it to an operand
ToNumber(value) ==
    CASE value.t = "num" -> [nan |-> FALSE, v |-> value.v]
      [] value.t = "str" -> [nan |-> FALSE, v |-> value.v]
      [] value.t = "null" -> [nan |-> FALSE, v |-> 0]
      [] OTHER -> [nan |-> TRUE, v |-> 0]

\* value > c and value < c for a numeric literal c: false when either side is NaN
JsGt(value, c) == LET n == ToNumber(value) IN ~n.nan /\ n.v > c
JsLt(value, c) == LET n == ToNumber(value) IN ~n.nan /\ n.v < c

\* obj[key] on an object modelled as a function: undefined for a missing key
Get(obj, key) == IF key \in DOMAIN obj THEN obj[key] ELSE Undefined

-----------------------------------------------------------------------------
(* validateSensorRanges *)

acceptableRanges ==
    [temperatura |-> <<300, 450>>,
     humedad |-> <<0, 1000>>,
     oxigeno |-> <<150, 1000>>,
     frecuencia_cardiaca |-> <<500, 2500>>,
     frecuencia_respiratoria |-> <<100, 1000>>,
     presion_arterial_sistolica |-> <<300, 1500>>,
     presion_arterial_diastolica |-> <<150, 1000>>]

InvalidTypeError == "Invalid data type, expected number"
OutOfRangeError == "Value outside acceptable range"

\* Object.entries(sensorData): the keys of a reading, in the order they were
\* written; readings are written in this order
KeyOrder ==
    <<"temperature", "temperatura", "humedad", "oxigeno", "frecuencia_cardiaca",
      "frecuencia_respiratoria", "presion_arterial_sistolica",
      "presion_arterial_diastolica">>

Keys == {KeyOrder[i] : i \in 1..Len(KeyOrder)}

Entries(obj) == SelectSeq(KeyOrder, LAMBDA k : k \in DOMAIN obj)

\* the body of the for loop for one entry: the violations it pushes
RangeViolationVariantNoNaNCheck(parameter, value) ==
    IF parameter \in DOMAIN acceptableRanges
    THEN LET minVal == acceptableRanges[parameter][1]
             maxVal == acceptableRanges[parameter][2]
         IN IF value.t \notin {"num", "nan"}
            THEN <<[parameter |-> parameter, value |-> value,
                    error |-> InvalidTypeError,
                    acceptable_range |-> <<minVal, maxVal>>]>>
            ELSE IF JsLt(value, minVal) \/ JsGt(value, maxVal)
            THEN <<[parameter |-> parameter, value |-> value,
                    error |-> OutOfRangeError,
                    acceptable_range |-> <<minVal, maxVal>>]>>
            ELSE <<>>
    ELSE <<>>

RangeViolation(parameter, value) ==
    IF parameter \in DOMAIN acceptableRanges
    THEN LET minVal == acceptableRanges[parameter][1]
             maxVal == acceptableRanges[parameter][2]
         IN IF IsInvalidNumber(value)
            THEN <<[parameter |-> parameter, value |-> value,
                    error |-> InvalidTypeError,
                    acceptable_range |-> <<minVal, maxVal>>]>>
            ELSE IF JsLt(value, minVal) \/ JsGt(value, maxVal)
            THEN <<[parameter |-> parameter, value |-> value,
                    error |-> OutOfRangeError,
                    acceptable_range |-> <<minVal, maxVal>>]>>
            ELSE <<>>
    ELSE <<>>

\* the for loop over the entries, pushing in order
RECURSIVE PushViolations(_, _)
PushViolations(obj, keys) ==
    IF keys = <<>> THEN <<>>
    ELSE RangeViolation(Head(keys), obj[Head(keys)]) \o PushViolations(obj, Tail(keys))

validateSensorRanges(sensorData_) == PushViolations(sensorData_, Entries(sensorData_))

-----------------------------------------------------------------------------
(* validateSensorData *)

requiredFields ==
    <<"temperatura", "humedad", "oxigeno", "frecuencia_cardiaca",
      "frecuencia_respiratoria", "presion_arterial_sistolica",
      "presion_arterial_diastolica">>

RequiredSet == {requiredFields[i] : i \in 1..Len(requiredFields)}

\* `Missing required field: ${field}`
MissingErrors(sensorData_) ==
    LET missing == SelectSeq(requiredFields, LAMBDA f : f \notin DOMAIN sensorData_)
    IN [i \in 1..Len(missing) |-> <<"Missing required field: ", missing[i]>>]

\* `Invalid data type for ${field}: expected number`
TypeErrors(sensorData_) ==
    LET bad == SelectSeq(Entries(sensorData_),
                         LAMBDA f : f \in RequiredSet /\ IsInvalidNumber(sensorData_[f]))
    IN [i \in 1..Len(bad) |-> <<"Invalid data type for ", bad[i], ": expected number">>]

\* v.error + ` for ${v.parameter}`
RangeErrors(sensorData_) ==
    LET rangeViolations == validateSensorRanges(sensorData_)
    IN [i \in 1..Len(rangeViolations) |->
            <<rangeViolations[i].error, " for ", rangeViolations[i].parameter>>]

validateSensorData(sensorData_) ==
    LET errors == MissingErrors(sensorData_) \o TypeErrors(sensorData_)
        all == IF Len(errors) = 0 THEN errors \o RangeErrors(sensorData_) ELSE errors
    IN [isValid |-> Len(all) = 0, errors |-> all]

-----------------------------------------------------------------------------
(* formatAlertMessage *)

Abs(x) == IF x < 0 THEN -x ELSE x

\* x.toFixed(2) for x in tenths: the sign, the integer digits, the two decimals
toFixed2(x) == [neg |-> x < 0, int |-> Abs(x) \div 10, frac |-> (Abs(x) % 10) * 10]

\* the number a toFixed(2) text spells, in hundredths
Hundredths(text) == (IF text.neg THEN -1 ELSE 1) * (text.int * 100 + text.frac)

\* parameter.toUpperCase()
toUpperCase(parameter) ==
    CASE parameter = "temperatura" -> "TEMPERATURA"
      [] parameter = "humedad" -> "HUMEDAD"
      [] parameter = "oxigeno" -> "OXIGENO"
      [] parameter = "frecuencia_cardiaca" -> "FRECUENCIA_CARDIACA"
      [] parameter = "frecuencia_respiratoria" -> "FRECUENCIA_RESPIRATORIA"
      [] parameter = "presion_arterial_sistolica" -> "PRESION_ARTERIAL_SISTOLICA"
      [] parameter = "presion_arterial_diastolica" -> "PRESION_ARTERIAL_DIASTOLICA"
      [] parameter = "temperature" -> "TEMPERATURE"

\* The returned template string, as its parts:
\* `ALERTA ${level}: ${parameter} ${status} - Valor: ${value}, Rango normal:
\*  ${minVal}-${maxVal}, Desviacion: ${deviation}`
AlertText(alertLevel, parameter, status, value, minVal, maxVal, deviation) ==
    [level |-> alertLevel, parameter |-> toUpperCase(parameter), status |-> status,
     value |-> toFixed2(value), minVal |-> minVal, maxVal |-> maxVal,
     deviation |-> toFixed2(deviation)]

formatAlertMessageVariantLowSign(alertLevel, parameter, value, normalRange) ==
    LET minVal == normalRange[1]
        maxVal == normalRange[2]
    IN IF value < minVal
       THEN AlertText(alertLevel, parameter, "BAJO", value, minVal, maxVal, value - minVal)
       ELSE AlertText(alertLevel, parameter, "ALTO", value, minVal, maxVal, value - maxVal)

formatAlertMessageVariantStatus(alertLevel, parameter, value, normalRange) ==
    LET minVal == normalRange[1]
        maxVal == normalRange[2]
    IN IF value < minVal
       THEN AlertText(alertLevel, parameter, "ALTO", value, minVal, maxVal, minVal - value)
       ELSE AlertText(alertLevel, parameter, "BAJO", value, minVal, maxVal, value - maxVal)

formatAlertMessage(alertLevel, parameter, value, normalRange) ==
    LET minVal == normalRange[1]
        maxVal == normalRange[2]
    IN IF value < minVal
       THEN AlertText(alertLevel, parameter, "BAJO", value, minVal, maxVal, minVal - value)
       ELSE AlertText(alertLevel, parameter, "ALTO", value, minVal, maxVal, value - maxVal)

-----------------------------------------------------------------------------
(* server.js: the MQTT message handler *)

TempHigh == 375     \* 37.5
TempLow == 360      \* 36.0

Devices == {"INC-001", "INC-002"}

\* a topic matching the subscription 'incubadora/+/sensors', split at '/'
Topics == {<<"incubadora", d, "sensors">> : d \in Devices}

\* lines 38-48: the alerts the handler pushes for a parsed object
CheckAlertsVariantSwapped(data, topic, now) ==
    LET temperature == Get(data, "temperature")
    IN IF JsGt(temperature, TempLow) \/ JsLt(temperature, TempHigh)
       THEN <<[type |-> "temperature",
               value |-> temperature,
               threshold |-> IF JsGt(temperature, TempHigh) THEN TempHigh ELSE TempLow,
               timestamp |-> now,
               device_id |-> topic[2]]>>
       ELSE <<>>

CheckAlerts(data, topic, now) ==
    LET temperature == Get(data, "temperature")
    IN IF JsGt(temperature, TempHigh) \/ JsLt(temperature, TempLow)
       THEN <<[type |-> "temperature",
               value |-> temperature,
               threshold |-> IF JsGt(temperature, TempHigh) THEN TempHigh ELSE TempLow,
               timestamp |-> now,
               device_id |-> topic[2]]>>
       ELSE <<>>

\* lines 31-35: { ...data, topic, timestamp: new Date() }; the properties written
\* after the spread win over the data's own
StoredSample(data, topic, now) == [topic |-> topic, timestamp |-> now] @@ data

EmptyObject == [k \in {} |-> Undefined]

\* The payloads of a message: text that JSON.parse rejects, the text null, a
\* JSON number, and a JSON object.
TemperatureValues ==
    {Num(TempLow - 1), Num(TempLow), Num((TempLow + TempHigh) \div 2), Num(TempHigh),
     Num(TempHigh + 1), Num(acceptableRanges.temperatura[2] + 1),
     Str(TempHigh + 5), TextValue, NullValue}

PayloadObjects ==
    {EmptyObject} \cup {[temperature |-> v] : v \in TemperatureValues}

Payloads ==
    {[kind |-> "invalid", data |-> EmptyObject],
     [kind |-> "null", data |-> EmptyObject],
     [kind |-> "number", data |-> EmptyObject]}
    \cup {[kind |-> "object", data |-> d] : d \in PayloadObjects}

\* array.push(...items) on an array modelled as a sequence
PushVariantAssign(array, items) == items

Push(array, items) == array \o items

\* mqttClient.on('message', (topic, message) => { try { ... } catch { log } })
OnMessage(topic, payload) ==
    /\ clock < MaxMessages
    /\ clock' = clock + 1
    /\ handlerError' = (payload.kind \in {"invalid", "null"})
    /\ CASE payload.kind = "invalid" ->
              \* JSON.parse throws before anything is stored
              UNCHANGED <<sensorData, alerts>>
         [] payload.kind = "null" ->
              \* { ...null } is {}; data.temperature then throws a TypeError
              /\ sensorData' = Append(sensorData, StoredSample(EmptyObject, topic, clock))
              /\ UNCHANGED alerts
         [] payload.kind = "number" ->
              \* { ...5 } is {}; (5).temperature is undefined
              /\ sensorData' = Append(sensorData, StoredSample(EmptyObject, topic, clock))
              /\ alerts' = Push(alerts, CheckAlerts(EmptyObject, topic, clock))
         [] payload.kind = "object" ->
              /\ sensorData' = Append(sensorData, StoredSample(payload.data, topic, clock))
              /\ alerts' = Push(alerts, CheckAlerts(payload.data, topic, clock))
    /\ UNCHANGED httpVars
    /\ UNCHANGED <<evalVars, fmtVars, alertaVars, umbralVars, retryVars, configVars>>

-----------------------------------------------------------------------------
(* Idle values of the parts a specification does not exercise *)

NoReading == EmptyObject
NoResult == [isValid |-> TRUE, errors |-> <<>>]
NoArgs == [alertLevel |-> "", parameter |-> "", value |-> 0, normalRange |-> <<0, 0>>]
NoMessage == [level |-> "", parameter |-> "", status |-> "",
              value |-> toFixed2(0), minVal |-> 0, maxVal |-> 0,
              deviation |-> toFixed2(0)]

ServerIdle == sensorData = <<>> /\ alerts = <<>> /\ clock = 0 /\ handlerError = FALSE
EvalIdle ==
    /\ reading = NoReading /\ called = "none" /\ violations = <<>>
    /\ validation = NoResult /\ newAlerts = <<>>
FmtIdle == fmtArgs = NoArgs /\ message = NoMessage
AlertaIdle == alertas = <<>> /\ nextId = 1 /\ alertaResult = "none"
UmbralIdle == umbrales_paciente = <<>> /\ umbralResult = "none"

NoRequest == [route |-> "none", authorization |-> [present |-> FALSE, words |-> <<>>]]
NoResponse == [status |-> 0, sent |-> "none", body |-> <<>>]
NoValue == [t |-> "none", v |-> 0]
NoGet == [key |-> "", value |-> NoValue]

HttpIdle == request = NoRequest /\ response = NoResponse
RetryIdle ==
    /\ maxRetries = 0 /\ attempt = 0 /\ lastError = NoValue /\ retryPc = "idle"
    /\ retryResult = NoValue /\ invocations = <<>>
NoFile == [kind |-> "none", data |-> EmptyObject]
ConfigIdle ==
    /\ config = EmptyObject /\ loadState = "idle" /\ fileData = NoFile
    /\ lastSet = EmptyObject /\ getResult = NoGet
RestIdle == HttpIdle /\ RetryIdle /\ ConfigIdle

-----------------------------------------------------------------------------
(* Spec: the server *)

Init == ServerIdle /\ EvalIdle /\ FmtIdle /\ AlertaIdle /\ UmbralIdle /\ RestIdle

Next == \E topic \in Topics, payload \in Payloads : OnMessage(topic, payload)

Spec == Init /\ [][Next]_vars

-----------------------------------------------------------------------------
(* server.js: the HTTP routes *)

JWT_SECRET == "incubadora-secret-key"

\* A token as jwt.verify sees it: text that is no JWT at all, or a JWT signed
\* with some key, whose exp claim has passed or not.
Jwt(key, expired) == [kind |-> "jwt", key |-> key, expired |-> expired]
Garbage == [kind |-> "garbage", key |-> "", expired |-> FALSE]
EmptyWord == [kind |-> "empty", key |-> "", expired |-> FALSE]     \* the string ''

\* jwt.sign({ userId: 1, username }, JWT_SECRET, { expiresIn: '1h' })
IssuedToken == Jwt(JWT_SECRET, FALSE)

\* jwt.verify(token, JWT_SECRET, callback): err is null
Verifies(token) == token.kind = "jwt" /\ token.key = JWT_SECRET /\ ~token.expired

\* The Authorization header, split at ' ': no header at all, or its words.
NoHeader == [present |-> FALSE, words |-> <<>>]
Header(words) == [present |-> TRUE, words |-> words]

Schemes == {[kind |-> "scheme", key |-> "Bearer", expired |-> FALSE]}

TokenWords ==
    {IssuedToken, Jwt(JWT_SECRET, TRUE), Jwt("another-key", FALSE), Garbage, EmptyWord}

AuthorizationHeaders ==
    {NoHeader, Header(<<>>)}
    \cup {Header(<<sch>>) : sch \in Schemes}
    \cup {Header(<<sch, tok>>) : sch \in Schemes, tok \in TokenWords}

\* const token = authHeader && authHeader.split(' ')[1]; the value of !token
TokenMissing(authHeader) ==
    \/ ~authHeader.present
    \/ Len(authHeader.words) < 2
    \/ authHeader.words[2] = EmptyWord

\* authenticateToken: the status it sends, or "next" when it calls next()
authenticateTokenVariantNoReturn(authHeader) ==
    IF TokenMissing(authHeader) THEN "401" ELSE "next"

authenticateToken(authHeader) ==
    IF TokenMissing(authHeader) THEN "401"
    ELSE IF ~Verifies(authHeader.words[2]) THEN "403"
    ELSE "next"

\* array.slice(-n): the last n elements, the array itself left as it is
SliceLast(array, n) ==
    IF Len(array) <= n THEN array ELSE SubSeq(array, Len(array) - n + 1, Len(array))

SendStatus(code) == [status |-> code, sent |-> "status", body |-> <<>>]
SendJson(code, body) == [status |-> code, sent |-> "json", body |-> body]

Guarded(authHeader, body) ==
    LET auth == authenticateToken(authHeader)
    IN CASE auth = "401" -> SendStatus(401)
         [] auth = "403" -> SendStatus(403)
         [] auth = "next" -> SendJson(200, body)

\* app.get('/api/sensor-data', authenticateToken, ...)
GetSensorData(authHeader) ==
    /\ request' = [route |-> "GET /api/sensor-data", authorization |-> authHeader]
    /\ response' = Guarded(authHeader, SliceLast(sensorData, 100))
    /\ UNCHANGED serverVars
    /\ UNCHANGED <<evalVars, fmtVars, alertaVars, umbralVars, retryVars, configVars>>

\* app.get('/api/alerts', authenticateToken, ...)
GetAlerts(authHeader) ==
    /\ request' = [route |-> "GET /api/alerts", authorization |-> authHeader]
    /\ response' = Guarded(authHeader, SliceLast(alerts, 20))
    /\ UNCHANGED serverVars
    /\ UNCHANGED <<evalVars, fmtVars, alertaVars, umbralVars, retryVars, configVars>>

\* app.post('/api/auth/login', ...)
PostLogin(username, password) ==
    /\ request' = [route |-> "POST /api/auth/login", authorization |-> NoHeader]
    /\ response' =
           IF username = "admin" /\ password = "password"
           THEN SendJson(200, <<IssuedToken>>)
           ELSE SendJson(401, <<>>)
    /\ UNCHANGED serverVars
    /\ UNCHANGED <<evalVars, fmtVars, alertaVars, umbralVars, retryVars, configVars>>

\* the messages the server is fed while it answers requests
HttpPayloads ==
    {pl \in Payloads :
        \/ pl.kind = "invalid"
        \/ pl.kind = "object" /\ pl.data \in {[temperature |-> Num(TempHigh + 1)],
                                               [temperature |-> Num(TempHigh)]}}

InitHttp == Init

NextHttp ==
    \/ \E topic \in Topics, payload \in HttpPayloads : OnMessage(topic, payload)
    \/ \E authHeader \in AuthorizationHeaders : GetSensorData(authHeader)
    \/ \E authHeader \in AuthorizationHeaders : GetAlerts(authHeader)
    \/ \E username \in {"admin", "guest"}, password \in {"password", "1234"} :
           PostLogin(username, password)

SpecHttp == InitHttp /\ [][NextHttp]_vars

-----------------------------------------------------------------------------
(* SpecEval: the validation utilities and the handler's alert check, applied *)
(* to one reading                                                            *)

Absent == [t |-> "absent", v |-> 0]     \* marks a key the reading does not have

\* the band a key's values are probed around
ProbeBand(k) ==
    IF k \in DOMAIN acceptableRanges THEN acceptableRanges[k] ELSE <<TempLow, TempHigh>>

Mid(band) == (band[1] + band[2]) \div 2

\* the values a deviating field may take
Options(k) ==
    LET lo == ProbeBand(k)[1]
        hi == ProbeBand(k)[2]
    IN {Num(lo - 1), Num(lo), Num(Mid(ProbeBand(k))), Num(hi), Num(hi + 1),
        NaNValue, Str(hi + 1), NullValue, Absent}
       \cup (IF k = "temperature"
             THEN {Num(acceptableRanges.temperatura[1] - 1),
                   Num(acceptableRanges.temperatura[2] + 1)}
             ELSE {})

\* a reading with every field present, numeric and in the middle of its band
Nominal == [k \in Keys |-> Num(Mid(ProbeBand(k)))]

Deviate(D, f) ==
    [k \in {j \in Keys : j \notin D \/ f[j] # Absent} |->
        IF k \in D THEN f[k] ELSE Nominal[k]]

\* every way of giving each key of D one of its options
RECURSIVE Choices(_)
Choices(D) ==
    IF D = {} THEN {EmptyObject}
    ELSE LET k == CHOOSE j \in D : TRUE
         IN {(k :> v) @@ g : v \in Options(k), g \in Choices(D \ {k})}

DeviatingSets == {S \in SUBSET Keys : Cardinality(S) <= MaxDeviating}

InitEval ==
    /\ ServerIdle /\ FmtIdle /\ AlertaIdle /\ UmbralIdle /\ RestIdle
    /\ \E D \in DeviatingSets : \E f \in Choices(D) : reading = Deviate(D, f)
    /\ called = "none" /\ violations = <<>> /\ validation = NoResult /\ newAlerts = <<>>

CallValidateSensorRanges ==
    /\ called = "none"
    /\ called' = "validateSensorRanges"
    /\ violations' = validateSensorRanges(reading)
    /\ UNCHANGED <<reading, validation, newAlerts>>
    /\ UNCHANGED <<serverVars, fmtVars, alertaVars, umbralVars, httpVars, retryVars, configVars>>

CallValidateSensorData ==
    /\ called = "none"
    /\ called' = "validateSensorData"
    /\ validation' = validateSensorData(reading)
    /\ UNCHANGED <<reading, violations, newAlerts>>
    /\ UNCHANGED <<serverVars, fmtVars, alertaVars, umbralVars, httpVars, retryVars, configVars>>

CallCheckAlerts(topic) ==
    /\ called = "none"
    /\ called' = "checkAlerts"
    /\ newAlerts' = CheckAlerts(reading, topic, 0)
    /\ UNCHANGED <<reading, violations, validation>>
    /\ UNCHANGED <<serverVars, fmtVars, alertaVars, umbralVars, httpVars, retryVars, configVars>>

NextEval ==
    \/ CallValidateSensorRanges
    \/ CallValidateSensorData
    \/ \E topic \in Topics : CallCheckAlerts(topic)

SpecEval == InitEval /\ [][NextEval]_vars

-----------------------------------------------------------------------------
(* SpecFormat: formatAlertMessage applied to one set of arguments *)

\* numbers around zero and around the handler's lower threshold
FmtNumbers == (-FmtSpan..FmtSpan) \cup ((TempLow - FmtSpan)..(TempLow + FmtSpan))

FmtRanges == {<<lo, hi>> : lo \in FmtNumbers, hi \in FmtNumbers}

FmtCalls ==
    [alertLevel : {"media", "critica"}, parameter : {"temperatura"},
     value : FmtNumbers, normalRange : {r \in FmtRanges : r[1] <= r[2]}]

InitFormat ==
    /\ ServerIdle /\ EvalIdle /\ AlertaIdle /\ UmbralIdle /\ RestIdle
    /\ fmtArgs \in FmtCalls
    /\ message = NoMessage

CallFormatAlertMessage ==
    /\ message = NoMessage
    /\ message' = formatAlertMessage(fmtArgs.alertLevel, fmtArgs.parameter,
                                     fmtArgs.value, fmtArgs.normalRange)
    /\ UNCHANGED fmtArgs
    /\ UNCHANGED <<serverVars, evalVars, alertaVars, umbralVars, httpVars, retryVars, configVars>>

NextFormat == CallFormatAlertMessage

SpecFormat == InitFormat /\ [][NextFormat]_vars

-----------------------------------------------------------------------------
(* database/init.sql.  A table is the sequence of its rows; a statement is   *)
(* accepted when the row it writes meets the constraints the schema declares *)
(* (NOT NULL, CHECK, UNIQUE, REFERENCES), and is rejected otherwise.         *)

Null == "NULL"          \* SQL NULL in a text or key column
Default == "DEFAULT"    \* a column the statement leaves to its DEFAULT

SqlNull == [null |-> TRUE, v |-> 0]         \* SQL NULL in a DECIMAL column
SqlNum(n) == [null |-> FALSE, v |-> n]

\* INSERT INTO incubadoras ... : the seeded incubators, by codigo
Incubadoras == {"INC-001", "INC-002", "INC-003"}
Pacientes == {"P1"}

(* Table alertas *)

SeveridadCheck(severidad) ==
    severidad = Null \/ severidad \in {"baja", "media", "alta", "critica"}

EstadoCheck(estado) ==
    estado = Null \/ estado \in {"activa", "reconocida", "resuelta"}

\* the row an INSERT stores: generated id, DEFAULT 'media', DEFAULT 'activa'
AlertaRow(id, given) ==
    [id |-> id,
     incubadora_id |-> given.incubadora_id,
     paciente_id |-> given.paciente_id,
     tipo_alerta |-> given.tipo_alerta,
     severidad |-> IF given.severidad = Default THEN "media" ELSE given.severidad,
     estado |-> IF given.estado = Default THEN "activa" ELSE given.estado]

\* the constraints of the table on a row
AlertaViolation(row) ==
    IF row.incubadora_id = Null \/ row.tipo_alerta = Null THEN "not_null_violation"
    ELSE IF row.incubadora_id \notin Incubadoras THEN "foreign_key_violation"
    ELSE IF row.paciente_id # Null /\ row.paciente_id \notin Pacientes
    THEN "foreign_key_violation"
    ELSE IF ~SeveridadCheck(row.severidad) \/ ~EstadoCheck(row.estado)
    THEN "check_violation"
    ELSE "ok"

AlertaInserts ==
    [incubadora_id : {"INC-001", Null},
     paciente_id : {Null, "P1"},
     tipo_alerta : {"temperatura_alta"},
     severidad : {Default, "critica", "urgente"},
     estado : {Default, "reconocida", "resuelta"}]

EstadoValues == {"activa", "reconocida", "resuelta", "cerrada"}

\* INSERT INTO alertas (...) VALUES (...)
InsertAlerta(given) ==
    /\ nextId <= MaxAlertas
    /\ LET row == AlertaRow(nextId, given)
           result == AlertaViolation(row)
       IN /\ alertaResult' = result
          /\ IF result = "ok"
             THEN alertas' = Append(alertas, row) /\ nextId' = nextId + 1
             ELSE UNCHANGED <<alertas, nextId>>
    /\ UNCHANGED <<serverVars, evalVars, fmtVars, umbralVars, httpVars, retryVars, configVars>>

\* UPDATE alertas SET estado = ... WHERE id = ...
UpdateAlertaEstado(i, estado) ==
    /\ i \in DOMAIN alertas
    /\ LET row == [alertas[i] EXCEPT !.estado = estado]
           result == AlertaViolation(row)
       IN /\ alertaResult' = result
          /\ alertas' = IF result = "ok" THEN [alertas EXCEPT ![i] = row] ELSE alertas
    /\ UNCHANGED nextId
    /\ UNCHANGED <<serverVars, evalVars, fmtVars, umbralVars, httpVars, retryVars, configVars>>

RemoveAt(rows, i) == SubSeq(rows, 1, i - 1) \o SubSeq(rows, i + 1, Len(rows))

\* DELETE FROM alertas WHERE id = ...
DeleteAlerta(i) ==
    /\ i \in DOMAIN alertas
    /\ alertas' = RemoveAt(alertas, i)
    /\ alertaResult' = "ok"
    /\ UNCHANGED nextId
    /\ UNCHANGED <<serverVars, evalVars, fmtVars, umbralVars, httpVars, retryVars, configVars>>

InitAlertas ==
    ServerIdle /\ EvalIdle /\ FmtIdle /\ AlertaIdle /\ UmbralIdle /\ RestIdle

NextAlertas ==
    \/ \E given \in AlertaInserts : InsertAlerta(given)
    \/ \E i \in 1..MaxAlertas, estado \in EstadoValues : UpdateAlertaEstado(i, estado)
    \/ \E i \in 1..MaxAlertas : DeleteAlerta(i)

SpecAlertas == InitAlertas /\ [][NextAlertas]_vars

(* Table umbrales_paciente *)

Parametros == {"temperatura_corporal", "frecuencia_cardiaca"}

\* UNIQUE(paciente_id, parametro): no other row holds the pair
UniqueVariantDropped(rows, skip, paciente_id, parametro) == TRUE

UniquePacienteParametro(rows, skip, paciente_id, parametro) ==
    \A j \in DOMAIN rows :
        j # skip => ~(rows[j].paciente_id = paciente_id /\ rows[j].parametro = parametro)

\* the constraints of the table on a row written at position skip (0: a new row)
UmbralViolation(rows, skip, row) ==
    IF row.paciente_id = Null \/ row.parametro = Null THEN "not_null_violation"
    ELSE IF row.paciente_id \notin Pacientes THEN "foreign_key_violation"
    ELSE IF ~UniquePacienteParametro(rows, skip, row.paciente_id, row.parametro)
    THEN "unique_violation"
    ELSE "ok"

\* the four bounds a statement may write
BoundValues ==
    [valor_min : {SqlNum(360), SqlNum(380)},
     valor_max : {SqlNum(360), SqlNum(380)},
     valor_critico_min : {SqlNull, SqlNum(350)},
     valor_critico_max : {SqlNull, SqlNum(370)}]

UmbralRow(paciente_id, parametro, bounds, activo) ==
    [paciente_id |-> paciente_id,
     parametro |-> parametro,
     valor_min |-> bounds.valor_min,
     valor_max |-> bounds.valor_max,
     valor_critico_min |-> bounds.valor_critico_min,
     valor_critico_max |-> bounds.valor_critico_max,
     activo |-> activo]

\* INSERT INTO umbrales_paciente (...) VALUES (...); activo DEFAULT true
InsertUmbral(paciente_id, parametro, bounds, activo) ==
    /\ Len(umbrales_paciente) < MaxUmbrales
    /\ LET row == UmbralRow(paciente_id, parametro, bounds, activo)
           result == UmbralViolation(umbrales_paciente, 0, row)
       IN /\ umbralResult' = result
          /\ umbrales_paciente' =
                 IF result = "ok" THEN Append(umbrales_paciente, row)
                 ELSE umbrales_paciente
    /\ UNCHANGED <<serverVars, evalVars, fmtVars, alertaVars, httpVars, retryVars, configVars>>

\* UPDATE umbrales_paciente SET valor_min = ..., valor_max = ...,
\*   valor_critico_min = ..., valor_critico_max = ... WHERE id = ...
UpdateUmbralBounds(i, bounds) ==
    /\ i \in DOMAIN umbrales_paciente
    /\ LET old == umbrales_paciente[i]
           row == UmbralRow(old.paciente_id, old.parametro, bounds, old.activo)
           result == UmbralViolation(umbrales_paciente, i, row)
       IN /\ umbralResult' = result
          /\ umbrales_paciente' =
                 IF result = "ok" THEN [umbrales_paciente EXCEPT ![i] = row]
                 ELSE umbrales_paciente
    /\ UNCHANGED <<serverVars, evalVars, fmtVars, alertaVars, httpVars, retryVars, configVars>>

\* UPDATE umbrales_paciente SET activo = ... WHERE id = ...
UpdateUmbralActivo(i, activo) ==
    /\ i \in DOMAIN umbrales_paciente
    /\ LET row == [umbrales_paciente[i] EXCEPT !.activo = activo]
           result == UmbralViolation(umbrales_paciente, i, row)
       IN /\ umbralResult' = result
          /\ umbrales_paciente' =
                 IF result = "ok" THEN [umbrales_paciente EXCEPT ![i] = row]
                 ELSE umbrales_paciente
    /\ UNCHANGED <<serverVars, evalVars, fmtVars, alertaVars, httpVars, retryVars, configVars>>

\* UPDATE umbrales_paciente SET parametro = ... WHERE id = ...
UpdateUmbralParametro(i, parametro) ==
    /\ i \in DOMAIN umbrales_paciente
    /\ LET row == [umbrales_paciente[i] EXCEPT !.parametro = parametro]
           result == UmbralViolation(umbrales_paciente, i, row)
       IN /\ umbralResult' = result
          /\ umbrales_paciente' =
                 IF result = "ok" THEN [umbrales_paciente EXCEPT ![i] = row]
                 ELSE umbrales_paciente
    /\ UNCHANGED <<serverVars, evalVars, fmtVars, alertaVars, httpVars, retryVars, configVars>>

\* DELETE FROM umbrales_paciente WHERE id = ...
DeleteUmbral(i) ==
    /\ i \in DOMAIN umbrales_paciente
    /\ umbrales_paciente' = RemoveAt(umbrales_paciente, i)
    /\ umbralResult' = "ok"
    /\ UNCHANGED <<serverVars, evalVars, fmtVars, alertaVars, httpVars, retryVars, configVars>>

InitUmbrales ==
    ServerIdle /\ EvalIdle /\ FmtIdle /\ AlertaIdle /\ UmbralIdle /\ RestIdle

NextUmbrales ==
    \/ \E paciente_id \in Pacientes \cup {Null}, parametro \in Parametros,
          bounds \in BoundValues, activo \in BOOLEAN :
           InsertUmbral(paciente_id, parametro, bounds, activo)
    \/ \E i \in 1..MaxUmbrales, bounds \in BoundValues : UpdateUmbralBounds(i, bounds)
    \/ \E i \in 1..MaxUmbrales, activo \in BOOLEAN : UpdateUmbralActivo(i, activo)
    \/ \E i \in 1..MaxUmbrales, parametro \in Parametros : UpdateUmbralParametro(i, parametro)
    \/ \E i \in 1..MaxUmbrales : DeleteUmbral(i)

SpecUmbrales == InitUmbrales /\ [][NextUmbrales]_vars

-----------------------------------------------------------------------------
(* Properties of the server and of the utilities *)

Monitored(obj) == DOMAIN obj \cap DOMAIN acceptableRanges

IsNumber(value) == value.t = "num"
Malformed(value) == value.t \in {"nan", "str", "text", "null", "undefined"}

FindingsFor(p) == {i \in DOMAIN violations : violations[i].parameter = p}

\* C1: there is never more than one active alert for the same (incubator,
\* patient, alert type): a second breach for a key that already has an alert
\* (the handler's alerts carry no state and none is ever acknowledged or
\* resolved, so every stored alert is active) adds no second entry.
C1_OneActiveAlertPerKey ==
    \A i, j \in DOMAIN alerts :
        (alerts[i].device_id = alerts[j].device_id /\ alerts[i].type = alerts[j].type)
            => i = j

\* C2: a value strictly inside the normal band of its parameter yields no alert
\* from the handler's check and no violation from validateSensorRanges for that
\* parameter.
C2_InsideBandNoAlert ==
    /\ (/\ called = "checkAlerts"
        /\ "temperature" \in DOMAIN reading
        /\ IsNumber(reading.temperature)
        /\ TempLow < reading.temperature.v
        /\ reading.temperature.v < TempHigh)
           => newAlerts = <<>>
    /\ called = "validateSensorRanges" =>
           \A p \in Monitored(reading) :
               (/\ IsNumber(reading[p])
                /\ acceptableRanges[p][1] < reading[p].v
                /\ reading[p].v < acceptableRanges[p][2])
                   => FindingsFor(p) = {}

\* C2 witness: validateSensorRanges ran on a reading with a field strictly
\* inside its band and reported something, but nothing for that field.
C2_Witness ==
    /\ called = "validateSensorRanges"
    /\ violations # <<>>
    /\ \E p \in Monitored(reading) :
           /\ IsNumber(reading[p])
           /\ acceptableRanges[p][1] < reading[p].v
           /\ reading[p].v < acceptableRanges[p][2]
           /\ FindingsFor(p) = {}

\* C3: when one field of a reading is malformed and another field is numeric
\* and out of range, the out-of-range condition of the other field is still
\* reported, by validateSensorRanges and by validateSensorData.
C3_MalformedFieldSuppressesNothing ==
    \A f, g \in Monitored(reading) :
        (/\ f # g
         /\ Malformed(reading[f])
         /\ IsNumber(reading[g])
         /\ (reading[g].v < acceptableRanges[g][1] \/ reading[g].v > acceptableRanges[g][2]))
            => /\ called = "validateSensorRanges" =>
                      \E i \in FindingsFor(g) : violations[i].error = OutOfRangeError
               /\ called = "validateSensorData" =>
                      \E i \in DOMAIN validation.errors :
                          validation.errors[i] = <<OutOfRangeError, " for ", g>>

\* C7: a temperature outside the critical band (the widest band the code
\* knows for a temperature, acceptableRanges.temperatura) yields an alert
\* whose severity is critica.
C7_OutsideCriticalIsCritica ==
    (/\ called = "checkAlerts"
     /\ "temperature" \in DOMAIN reading
     /\ IsNumber(reading.temperature)
     /\ (reading.temperature.v < acceptableRanges.temperatura[1]
         \/ reading.temperature.v > acceptableRanges.temperatura[2]))
        => \E i \in DOMAIN newAlerts :
               /\ "severidad" \in DOMAIN newAlerts[i]
               /\ newAlerts[i].severidad = "critica"

\* the distance from a value to a band, in tenths
DistanceToBand(value, band) ==
    LET ds == {Abs(value - x) : x \in band[1]..band[2]}
    IN CHOOSE d \in ds : \A e \in ds : d <= e

Formatted == message # NoMessage

\* C8 as stated: for every value and every range [min, max] with min <= max the
\* reported deviation is never negative and is the distance from the value to
\* the band.
C8_DeviationNeverNegative ==
    Formatted =>
        /\ Hundredths(message.deviation) >= 0
        /\ Hundredths(message.deviation)
               = 10 * DistanceToBand(fmtArgs.value, fmtArgs.normalRange)

\* C8 amended: for a value outside [min, max] the reported deviation is the
\* distance from the value to the violated bound and is never negative, with status
\* BAJO below min and ALTO above max; for a value inside the range the status
\* is ALTO and the reported deviation is value - max, zero or negative.
C8_DeviationOutsideBand ==
    Formatted =>
        LET value == fmtArgs.value
            minVal == fmtArgs.normalRange[1]
            maxVal == fmtArgs.normalRange[2]
            deviation == Hundredths(message.deviation)
        IN /\ value < minVal =>
                 /\ message.status = "BAJO"
                 /\ deviation >= 0
                 /\ deviation = 10 * DistanceToBand(value, fmtArgs.normalRange)
           /\ value > maxVal =>
                 /\ message.status = "ALTO"
                 /\ deviation >= 0
                 /\ deviation = 10 * DistanceToBand(value, fmtArgs.normalRange)
           /\ (minVal <= value /\ value <= maxVal) =>
                 /\ message.status = "ALTO"
                 /\ deviation <= 0
                 /\ deviation = 10 * (value - maxVal)

\* C8 witness: a message was formatted for a value below the range.
C8_Witness ==
    /\ Formatted
    /\ fmtArgs.value < fmtArgs.normalRange[1]
    /\ message.status = "BAJO"
    /\ Hundredths(message.deviation) > 0

\* the direction formatAlertMessage reports for a finding of validateSensorRanges
DirectionOf(finding) ==
    formatAlertMessage("media", finding.parameter, finding.value.v,
                       finding.acceptable_range).status

\* C9: with only the default bands, a numeric value above the upper bound of
\* its parameter's band yields exactly one finding for that parameter, which
\* carries the default band and formats with direction ALTO; a value below the
\* lower bound yields exactly one, with direction BAJO.
C9_DefaultBandBreach ==
    called = "validateSensorRanges" =>
        \A p \in Monitored(reading) :
            IsNumber(reading[p]) =>
                /\ reading[p].v > acceptableRanges[p][2] =>
                       /\ Cardinality(FindingsFor(p)) = 1
                       /\ \A i \in FindingsFor(p) :
                              /\ violations[i].acceptable_range = acceptableRanges[p]
                              /\ violations[i].value = reading[p]
                              /\ DirectionOf(violations[i]) = "ALTO"
                /\ reading[p].v < acceptableRanges[p][1] =>
                       /\ Cardinality(FindingsFor(p)) = 1
                       /\ \A i \in FindingsFor(p) :
                              /\ violations[i].acceptable_range = acceptableRanges[p]
                              /\ violations[i].value = reading[p]
                              /\ DirectionOf(violations[i]) = "BAJO"

\* C9 witness: a heart rate above 250 bpm was evaluated and one finding with
\* the band [50, 250] was produced for it.
C9_Witness ==
    /\ called = "validateSensorRanges"
    /\ "frecuencia_cardiaca" \in DOMAIN reading
    /\ IsNumber(reading.frecuencia_cardiaca)
    /\ reading.frecuencia_cardiaca.v > 2500
    /\ \E i \in DOMAIN violations :
           /\ violations[i].parameter = "frecuencia_cardiaca"
           /\ violations[i].acceptable_range = <<500, 2500>>

\* C10: a monitored parameter whose value is not a number or is NaN gets
\* exactly one finding, the data-type finding, and no out-of-range finding.
C10_MalformedOneFinding ==
    called = "validateSensorRanges" =>
        \A p \in Monitored(reading) :
            Malformed(reading[p]) =>
                /\ Cardinality(FindingsFor(p)) = 1
                /\ \A i \in FindingsFor(p) : violations[i].error = InvalidTypeError

\* C10 witness: validateSensorRanges ran on a reading with a NaN field and a
\* null field and reported a finding for each.
C10_Witness ==
    /\ called = "validateSensorRanges"
    /\ \E p, q \in Monitored(reading) :
           /\ reading[p] = NaNValue /\ FindingsFor(p) # {}
           /\ reading[q] = NullValue /\ FindingsFor(q) # {}

-----------------------------------------------------------------------------
(* Properties of the tables *)

\* C4: resuelta is terminal: an alert in state resuelta never changes state
\* again (so acknowledging it is refused), and the only state changes are
\* activa to reconocida, activa to resuelta and reconocida to resuelta.
C4_ResueltaTerminal ==
    [][\A i \in DOMAIN alertas : \A j \in DOMAIN alertas' :
           (alertas[i].id = alertas'[j].id /\ alertas[i].estado # alertas'[j].estado)
               => <<alertas[i].estado, alertas'[j].estado>>
                      \in {<<"activa", "reconocida">>, <<"activa", "resuelta">>,
                           <<"reconocida", "resuelta">>}]_vars

Set(bound) == ~bound.null

\* valor_critico_min <= valor_min <= valor_max <= valor_critico_max, over the
\* bounds that are set
BandOrdered(row) ==
    LET chain == <<row.valor_critico_min, row.valor_min, row.valor_max,
                   row.valor_critico_max>>
    IN \A a, b \in 1..4 :
           (a < b /\ Set(chain[a]) /\ Set(chain[b])) => chain[a].v <= chain[b].v

\* C5: no stored threshold row violates the band ordering: a write such as
\* valor_min = 38, valor_max = 36 is rejected.
C5_StoredBandsOrdered ==
    \A i \in DOMAIN umbrales_paciente : BandOrdered(umbrales_paciente[i])

ActiveRows(paciente_id, parametro) ==
    {i \in DOMAIN umbrales_paciente :
        /\ umbrales_paciente[i].paciente_id = paciente_id
        /\ umbrales_paciente[i].parametro = parametro
        /\ umbrales_paciente[i].activo}

\* C6: there is at most one active threshold row for each (patient, parameter).
C6_OneActiveThreshold ==
    \A paciente_id \in Pacientes, parametro \in Parametros :
        Cardinality(ActiveRows(paciente_id, parametro)) <= 1

\* C6 witness: a pair has an active row, another pair's row was deactivated,
\* and a write that would have duplicated a pair was refused.
C6_Witness ==
    /\ umbralResult = "unique_violation"
    /\ \E i, j \in DOMAIN umbrales_paciente :
           /\ umbrales_paciente[i].activo
           /\ ~umbrales_paciente[j].activo

-----------------------------------------------------------------------------
(* retryOperation(operation, maxRetries = 3, delay = 1000) *)

MaxRetriesBound == 3

\* what the operation's promise settles with
ErrorObject(n) == [t |-> "error", v |-> n]         \* an Error with a message
TypeErrorValue == [t |-> "typeerror", v |-> 0]     \* the TypeError of reading .message of null
Results == {Num(1), Num(2)}
Errors == {ErrorObject(1), ErrorObject(2), NullValue}

Resolved(value) == [outcome |-> "resolved", value |-> value]
Rejected(error) == [outcome |-> "rejected", value |-> error]

\* error.message can be read
HasMessage(error) == error.t \notin {"null", "undefined"}

\* the call: let lastError; attempt = 0
InitRetry ==
    /\ ServerIdle /\ EvalIdle /\ FmtIdle /\ AlertaIdle /\ UmbralIdle
    /\ HttpIdle /\ ConfigIdle
    /\ maxRetries \in -1..MaxRetriesBound
    /\ attempt = 0
    /\ lastError = Undefined
    /\ retryPc = "loop"
    /\ retryResult = NoValue
    /\ invocations = <<>>

\* for (...; attempt <= maxRetries; ...), and throw lastError after the loop
LoopTest ==
    /\ retryPc = "loop"
    /\ IF attempt <= maxRetries
       THEN retryPc' = "call" /\ UNCHANGED retryResult
       ELSE retryPc' = "thrown" /\ retryResult' = lastError
    /\ UNCHANGED <<maxRetries, attempt, lastError, invocations>>
    /\ UNCHANGED <<serverVars, httpVars, evalVars, fmtVars, alertaVars, umbralVars, configVars>>

\* return await operation(), the promise fulfilled
OperationResolves(value) ==
    /\ retryPc = "call"
    /\ invocations' = Append(invocations, Resolved(value))
    /\ retryPc' = "returned"
    /\ retryResult' = value
    /\ UNCHANGED <<maxRetries, attempt, lastError>>
    /\ UNCHANGED <<serverVars, httpVars, evalVars, fmtVars, alertaVars, umbralVars, configVars>>

\* await operation() rejected: the catch block, up to the delay
OperationRejects(error) ==
    /\ retryPc = "call"
    /\ invocations' = Append(invocations, Rejected(error))
    /\ lastError' = error
    /\ IF ~HasMessage(error)
       THEN \* ${error.message} throws inside the catch block
            retryPc' = "thrown" /\ retryResult' = TypeErrorValue /\ UNCHANGED attempt
       ELSE IF attempt < maxRetries
            THEN retryPc' = "wait" /\ UNCHANGED <<attempt, retryResult>>
            ELSE retryPc' = "loop" /\ attempt' = attempt + 1 /\ UNCHANGED retryResult
    /\ UNCHANGED maxRetries
    /\ UNCHANGED <<serverVars, httpVars, evalVars, fmtVars, alertaVars, umbralVars, configVars>>

\* await new Promise(resolve => setTimeout(resolve, delay)); attempt++
DelayElapses ==
    /\ retryPc = "wait"
    /\ retryPc' = "loop"
    /\ attempt' = attempt + 1
    /\ UNCHANGED <<maxRetries, lastError, retryResult, invocations>>
    /\ UNCHANGED <<serverVars, httpVars, evalVars, fmtVars, alertaVars, umbralVars, configVars>>

NextRetry ==
    \/ LoopTest
    \/ \E value \in Results : OperationResolves(value)
    \/ \E error \in Errors : OperationRejects(error)
    \/ DelayElapses

SpecRetry == InitRetry /\ [][NextRetry]_vars

-----------------------------------------------------------------------------
(* ConfigManager *)

ConfigKeys == {"host", "port"}
ConfigValues == {Num(1), Num(2)}

\* what fs.readFile finds: no file, text that is not JSON, or a JSON object
FileContents ==
    {[kind |-> "missing", data |-> EmptyObject],
     [kind |-> "invalid", data |-> EmptyObject],
     [kind |-> "object", data |-> EmptyObject],
     [kind |-> "object", data |-> [host |-> Num(2)]]}

\* obj[key] = value
Assign(obj, key, value) ==
    [k \in DOMAIN obj \cup {key} |-> IF k = key THEN value ELSE obj[k]]

\* new ConfigManager(): this.config = {}; this.loadConfig() runs up to its
\* first await and is left pending
InitConfig ==
    /\ ServerIdle /\ EvalIdle /\ FmtIdle /\ AlertaIdle /\ UmbralIdle
    /\ HttpIdle /\ RetryIdle
    /\ config = EmptyObject
    /\ loadState = "pending"
    /\ fileData \in FileContents
    /\ lastSet = EmptyObject
    /\ getResult = NoGet

\* set(key, value); lastSet remembers the value last set for each key
ConfigSet(key, value) ==
    /\ config' = Assign(config, key, value)
    /\ lastSet' = Assign(lastSet, key, value)
    /\ getResult' = NoGet
    /\ UNCHANGED <<loadState, fileData>>
    /\ UNCHANGED <<serverVars, httpVars, evalVars, fmtVars, alertaVars, umbralVars, retryVars>>

\* get(key, defaultValue = null)
ConfigGet(key) ==
    /\ getResult' = [key |-> key,
                     value |-> IF Get(config, key) # Undefined
                               THEN config[key] ELSE NullValue]
    /\ UNCHANGED <<config, loadState, fileData, lastSet>>
    /\ UNCHANGED <<serverVars, httpVars, evalVars, fmtVars, alertaVars, umbralVars, retryVars>>

\* loadConfig resumes after await fs.readFile: this.config = JSON.parse(data)
LoadResolves ==
    /\ loadState = "pending"
    /\ fileData.kind = "object"
    /\ config' = fileData.data
    /\ loadState' = "loaded"
    /\ UNCHANGED <<fileData, lastSet, getResult>>
    /\ UNCHANGED <<serverVars, httpVars, evalVars, fmtVars, alertaVars, umbralVars, retryVars>>

\* loadConfig resumes in its catch block: this.config = {}
LoadRejects ==
    /\ loadState = "pending"
    /\ fileData.kind \in {"missing", "invalid"}
    /\ config' = EmptyObject
    /\ loadState' = "failed"
    /\ UNCHANGED <<fileData, lastSet, getResult>>
    /\ UNCHANGED <<serverVars, httpVars, evalVars, fmtVars, alertaVars, umbralVars, retryVars>>

NextConfig ==
    \/ \E key \in ConfigKeys, value \in ConfigValues : ConfigSet(key, value)
    \/ \E key \in ConfigKeys : ConfigGet(key)
    \/ LoadResolves
    \/ LoadRejects

SpecConfig == InitConfig /\ [][NextConfig]_vars

-----------------------------------------------------------------------------
(* Properties of the server's stores and routes *)

IsPrefix(a, b) == Len(a) <= Len(b) /\ SubSeq(b, 1, Len(a)) = a

\* C11: alerts are never deleted: whatever message or request is handled,
\* every alert recorded before the step is still in the store after it, at
\* the same place.
C11_AlertsNeverDeleted == [][IsPrefix(alerts, alerts')]_vars

\* C11 witness: two alerts are recorded and GET /api/alerts has returned them.
C11_Witness ==
    /\ Len(alerts) >= 2
    /\ request.route = "GET /api/alerts"
    /\ response.sent = "json"
    /\ response.body = alerts

Protected == {"GET /api/sensor-data", "GET /api/alerts"}

\* the token a request carries: the second word of its Authorization header
CarriesToken(req) ==
    /\ req.authorization.present
    /\ Len(req.authorization.words) >= 2
    /\ req.authorization.words[2].kind # "empty"

\* C13: a request to a protected route without a token is answered 401, one
\* whose token fails verification is answered 403, and neither gets stored
\* data; data is sent only for a token that verifies.
C13_ProtectedRoutes ==
    request.route \in Protected =>
        /\ ~CarriesToken(request) =>
               response.status = 401 /\ response.sent = "status" /\ response.body = <<>>
        /\ (CarriesToken(request) /\ ~Verifies(request.authorization.words[2])) =>
               response.status = 403 /\ response.sent = "status" /\ response.body = <<>>
        /\ response.sent = "json" =>
               CarriesToken(request) /\ Verifies(request.authorization.words[2])

\* C13 witness: alerts are stored and a request for them with an expired
\* token was answered 403.
C13_Witness ==
    /\ alerts # <<>>
    /\ request.route = "GET /api/alerts"
    /\ CarriesToken(request)
    /\ request.authorization.words[2] = Jwt(JWT_SECRET, TRUE)
    /\ response.status = 403

\* C14: whenever the handling of a message raises an error inside the
\* handler, the step leaves sensorData and alerts as they were.
C14_ErrorLeavesStoresUnchanged ==
    [][(clock' # clock /\ handlerError') =>
           (sensorData' = sensorData /\ alerts' = alerts)]_vars

-----------------------------------------------------------------------------
(* Properties of retryOperation and ConfigManager *)

Last(seq) == seq[Len(seq)]

\* C12: retryOperation invokes the operation at most maxRetries + 1 times,
\* no invocation follows one that succeeded, a success is returned with its
\* result, and when every invocation failed the call ends by throwing the
\* error of the last invocation.
C12_RetryBounded ==
    /\ Len(invocations) <= maxRetries + 1
    /\ \A i \in 1..(Len(invocations) - 1) : invocations[i].outcome = "rejected"
    /\ (invocations # <<>> /\ Last(invocations).outcome = "resolved") =>
           retryPc = "returned" /\ retryResult = Last(invocations).value
    /\ retryPc = "returned" =>
           invocations # <<>> /\ Last(invocations).outcome = "resolved"
    /\ (retryPc = "thrown" /\ invocations # <<>>) =>
           /\ Last(invocations).outcome = "rejected"
           /\ retryResult = Last(invocations).value

\* C15: a get(key) made after set(key, v), with no set in between, returns v,
\* whenever the pending loadConfig completes.
C15_SetThenGet ==
    (getResult # NoGet /\ getResult.key \in DOMAIN lastSet) =>
        getResult.value = lastSet[getResult.key]

====
